---- MODULE Spec2Model ----
(***************************************************************************)
(* Camera-trajectory synthesis of src/src/utils.py: traj_map,              *)
(* set_initial_camera, build_cameras, txt_interpolation and                *)
(* rotation_matrix_from_vectors.                                           *)
(*                                                                         *)
(* Numbers.  Every number the repository's own code computes is kept as an *)
(* exact rational [n, d, s] (s = <<>>).  What scipy's UnivariateSpline     *)
(* returns is not computed by this repository: sample k of the n-point     *)
(* resampling of a keyframe list is kept as the uninterpreted term         *)
(* s = <<[curve, at, of]>>, to which the code may add a rational.          *)
(*                                                                         *)
(* Matrices.  A 4x4 pose is kept as the list of the matrix operations the  *)
(* code applied to the translate-only base pose, in the order applied:     *)
(* left-multiplication by an elemental rotation ("Rx", "Ry"), addition to  *)
(* the translation column ("add"), scaling of the translation column       *)
(* ("mul") and inversion ("inv").  Two poses are equal when the same       *)
(* operations with the same arguments were applied in the same order.      *)
(***************************************************************************)
EXTENDS Integers, Sequences, FiniteSets, TLC

\* ----------------------------------------------------------------- bounds
\* Frame counts 2..MaxFrame are explored, and 13 (the orbit case of the
\* specification's testable properties).
MaxFrame == 4
\* build_cameras is called MaxCalls times in a row with the same arguments.
MaxCalls == 2
\* Components of the vectors given to rotation_matrix_from_vectors.
MaxCoord == 2

NFrames == (2..MaxFrame) \cup {13}

\* -------------------------------------------------------------- rationals
Abs(x) == IF x < 0 THEN -x ELSE x

RECURSIVE GCD(_, _)
GCD(a, b) == IF b = 0 THEN a ELSE GCD(b, a % b)

\* The rational n/d in lowest terms with a positive denominator.
Q(n, d) ==
    LET g == GCD(Abs(n), Abs(d))
        sg == IF d < 0 THEN -1 ELSE 1
    IN [n |-> sg * (n \div g), d |-> sg * (d \div g), s |-> <<>>]

Int2Q(n) == Q(n, 1)
QAdd(a, b) == Q(a.n * b.d + b.n * a.d, a.d * b.d)
QSub(a, b) == Q(a.n * b.d - b.n * a.d, a.d * b.d)
QMul(a, b) == Q(a.n * b.n, a.d * b.d)
QNeg(a) == Q(-a.n, a.d)

\* q + x for a rational q and a value x that may be a spline sample.
SAdd(q, x) == [Q(q.n * x.d + x.n * q.d, q.d * x.d) EXCEPT !.s = x.s]

IsZero(x) == x.n = 0 /\ x.s = <<>>

\* Sample k (0-based) of the n-point resampling of the smoothing spline
\* fitted to the keyframe list `curve`.
SplineSample(curve, k, n) ==
    [n |-> 0, d |-> 1, s |-> <<[curve |-> curve, at |-> k, of |-> n]>>]

\* --------------------------------------------------------- txt_interpolation
\* np.linspace(0, 1, n)[k] lies in segment k*(L-1) \div (n-1) of the L
\* control points; interp1d interpolates linearly inside that segment.
LinearSample(input_list, k, n) ==
    LET L == Len(input_list)
        seg == (k * (L - 1)) \div (n - 1)
        rem == (k * (L - 1)) % (n - 1)
    IN IF rem = 0
       THEN input_list[seg + 1]
       ELSE QAdd(input_list[seg + 1],
                 QMul(Q(rem, n - 1), QSub(input_list[seg + 2], input_list[seg + 1])))

\* txt_interpolation(input_list, n, mode): the n resampled values (`curve`
\* names the keyframe list for the spline's samples).  Any other mode
\* raises KeyError; both call sites pass one of these two.
txt_interpolation(curve, input_list, n, mode) ==
    CASE mode = "smooth" -> [k \in 1..n |-> SplineSample(curve, k - 1, n)]
      [] mode = "linear" -> [k \in 1..n |-> LinearSample(input_list, k - 1, n)]

\* The resampled curve with its end values left as the spline gave them.
SetFirstLastNone(seq, a, b) == seq

\* Python's seq[0] = a; seq[-1] = b (in that order) on a sequence.
SetFirstLast(seq, a, b) ==
    [[seq EXCEPT ![1] = a] EXCEPT ![Len(seq)] = b]

IntList(xs) == [k \in 1..Len(xs) |-> Int2Q(xs[k])]

\* ------------------------------------------------------------------ traj_map
Archetype(cam, xo, yo, zo, th, ph, r) ==
    [cam_traj |-> cam, x_offset |-> xo, y_offset |-> yo, z_offset |-> zo,
     d_theta |-> th, d_phi |-> ph, d_r |-> r]

Returned(a) == [raised |-> FALSE, ret |-> <<a>>]
\* raise NotImplementedError: nothing is returned.
Raised == [raised |-> TRUE, ret |-> <<>>]

\* The if/elif chain of traj_map.
Registry(traj_type) ==
    CASE traj_type = "free1" ->
           Returned(Archetype("free", Q(0,1), Q(0,1), Q(0,1), Q(-15,1), Q(45,1), Q(8,5)))
      [] traj_type = "free2" ->
           Returned(Archetype("free", Q(-1,20), Q(0,1), Q(0,1), Q(0,1), Q(-60,1), Q(1,1)))
      [] traj_type = "free3" ->
           Returned(Archetype("free", Q(-1,4), Q(0,1), Q(0,1), Q(0,1), Q(0,1), Q(17,10)))
      [] traj_type = "free4" ->
           Returned(Archetype("free", Q(0,1), Q(0,1), Q(0,1), Q(-15,1), Q(-60,1), Q(3,4)))
      [] traj_type = "free5" ->
           Returned(Archetype("free", Q(0,1), Q(0,1), Q(0,1), Q(-15,1), Q(-120,1), Q(8,5)))
      [] traj_type = "swing1" ->
           Returned(Archetype("swing1", Q(0,1), Q(0,1), Q(0,1), Q(0,1), Q(0,1), Q(1,1)))
      [] traj_type = "swing2" ->
           Returned(Archetype("swing2", Q(0,1), Q(0,1), Q(0,1), Q(0,1), Q(0,1), Q(1,1)))
      [] traj_type = "orbit" ->
           Returned(Archetype("free", Q(0,1), Q(0,1), Q(0,1), Q(0,1), Q(-360,1), Q(1,1)))
      [] OTHER -> Raised

\* traj_map without its last elif: "orbit" falls through to the raise.
traj_map_no_orbit(traj_type) ==
    IF traj_type = "orbit" THEN Raised ELSE Registry(traj_type)

traj_map(traj_type) == Registry(traj_type)

\* --------------------------------------------------------------------- poses
NoVec == <<>>
Op(op, a, v) == [op |-> op, a |-> a, v |-> v]

\* torch.tensor([[1,0,0,0],[0,1,0,0],[0,0,1,-radius],[0,0,0,1]])
BasePose(radius) == [radius |-> radius, ops |-> <<>>]
NoPose == [radius |-> 0, ops |-> <<>>]

\* R @ m for the X-axis rotation matrix of deg2rad(angle) (R_theta, R_elevation).
RotX(angle, m) == [m EXCEPT !.ops = Append(@, Op("Rx", angle, NoVec))]
\* R @ m for the Y-axis rotation matrix of deg2rad(angle) (R_phi).
RotY(angle, m) == [m EXCEPT !.ops = Append(@, Op("Ry", angle, NoVec))]
\* m[:3, -1] += v
AddTranslation(m, v) == [m EXCEPT !.ops = Append(@, Op("add", Q(0,1), v))]
\* m[:3, -1] *= s
ScaleTranslation(m, s) == [m EXCEPT !.ops = Append(@, Op("mul", s, NoVec))]
\* m.inverse()
Inverse(m) == [m EXCEPT !.ops = Append(@, Op("inv", Q(0,1), NoVec))]

\* The rotation block of a pose that was never inverted: the rotations
\* applied, without those by 0 degrees (cos 0 = 1 and sin 0 = 0 exactly, so
\* such a factor is the identity matrix); "add" and "mul" touch only the
\* translation column.
IsTurn(o) == o.op \in {"Rx", "Ry"} /\ ~IsZero(o.a)
RotationOf(m) == SelectSeq(m.ops, IsTurn)

\* -------------------------------------------------------- set_initial_camera
set_initial_camera(start_elevation, radius) ==
    LET c2w_0 == RotX(QNeg(Int2Q(start_elevation)), BasePose(radius))
    IN [w2c_0 |-> Inverse(c2w_0), c2w_0 |-> c2w_0]

\* -------------------------------------------------------------- intrinsics
\* A tensor of intrinsics: one 3x3 matrix (ndim = 2) or a list of them
\* (ndim = 3).
Tensor(ndim, data) == [ndim |-> ndim, data |-> data]
NoTensor == Tensor(0, <<>>)

\* The caller's intrinsic matrix of frame k (0-based): focal lengths on the
\* diagonal, skew terms, the principal point in the last column.
ArgMatrix(k) ==
    << <<Int2Q(10 + k), Int2Q(1), Int2Q(5)>>,
       <<Int2Q(2), Int2Q(12 + k), Int2Q(6)>>,
       <<Int2Q(0), Int2Q(0), Int2Q(1)>> >>

ArgTensor(ndim, n) ==
    IF ndim = 2 THEN Tensor(2, ArgMatrix(0))
    ELSE Tensor(3, [k \in 1..n |-> ArgMatrix(k - 1)])

\* intrinsic[None].repeat(nframe, 1, 1): a new tensor of nframe copies.
Repeat(t, n) == Tensor(3, [k \in 1..n |-> t.data])

\* The blend written over the whole matrix instead of its 2x2 block.
BlendWhole(K, focal_length, j, nframe) ==
    [r \in 1..3 |-> [c \in 1..3 |->
        QAdd(QMul(QMul(K[r][c], focal_length), Q(j, nframe)),
             QMul(K[r][c], Q(nframe - j, nframe)))]]

\* K[:2, :2] * focal_length * (j / nframe) + K[:2, :2] * ((nframe - j) / nframe)
\* written into K[:2, :2], for j = i + 1.
BlendBlock(K, focal_length, j, nframe) ==
    [r \in 1..3 |-> [c \in 1..3 |->
        IF r <= 2 /\ c <= 2
        THEN QAdd(QMul(QMul(K[r][c], focal_length), Q(j, nframe)),
                  QMul(K[r][c], Q(nframe - j, nframe)))
        ELSE K[r][c]]]

\* ------------------------------------------------------ build_cameras, deltas
\* The ramp over nframe instead of nframe - 1, like the offsets' ramp.
CoefOverN(i, nframe) == Q(i + 1, nframe)
\* coef of loop index i (0-based): (i + 1) / (nframe - 1).
Coef(i, nframe) == Q(i + 1, nframe - 1)

\* The six lists of the "free" branch.
FreeDeltas(nframe, d_theta, d_phi, d_r, radius, x_offset, y_offset, z_offset) ==
    LET idx == 1..(nframe - 1)
        off(o, k) == QMul(QMul(Int2Q(radius), o), Q(k, nframe))
    IN [d_thetas |-> [k \in idx |-> QMul(d_theta, Coef(k - 1, nframe))],
        d_phis |-> [k \in idx |-> QMul(d_phi, Coef(k - 1, nframe))],
        d_rs |-> [k \in idx |->
                    QAdd(QMul(Coef(k - 1, nframe), d_r),
                         QMul(QSub(Q(1,1), Coef(k - 1, nframe)), Q(1,1)))],
        x_offsets |-> [k \in idx |-> off(x_offset, k)],
        y_offsets |-> [k \in idx |-> off(y_offset, k)],
        z_offsets |-> [k \in idx |-> off(z_offset, k)]]

\* phis__/thetas__ resampled smoothly, first and last value overwritten by
\* the first and last keyframe; rs__ resampled in `rmode`, 1.0 added.
SwingDeltas(fam, phis, thetas, rs, rmode, nframe) ==
    LET ps == txt_interpolation(<<fam, "phis__">>, phis, nframe, "smooth")
        ts == txt_interpolation(<<fam, "thetas__">>, thetas, nframe, "smooth")
        qs == txt_interpolation(<<fam, "rs__">>, rs, nframe, rmode)
    IN [d_thetas |-> SetFirstLast(ts, thetas[1], thetas[Len(thetas)]),
        d_phis |-> SetFirstLast(ps, phis[1], phis[Len(phis)]),
        d_rs |-> [k \in 1..nframe |-> SAdd(Q(1,1), qs[k])],
        x_offsets |-> <<>>, y_offsets |-> <<>>, z_offsets |-> <<>>]

Swing1Deltas(nframe) ==
    SwingDeltas("swing1",
                IntList(<<0, -5, -25, -30, -20, -8, 0>>),
                IntList(<<0, -8, -12, -20, -17, -12, -5, -2, 1, 5, 3, 1, 0>>),
                <<Q(0,1), Q(1,5)>>, "linear", nframe)

Swing2Deltas(nframe) ==
    SwingDeltas("swing2",
                IntList(<<0, 5, 25, 30, 20, 10, 0>>),
                IntList(<<0, -5, -14, -11, 0, 1, 5, 3, 0>>),
                <<Q(0,1), Q(-3,100), Q(-1,10), Q(-1,5), Q(-17,100), Q(-1,10), Q(0,1)>>,
                "smooth", nframe)

\* ------------------------------------------------------ build_cameras, frames
\* range(nframe - 1): the number of frames the loop builds (and the same
\* loop one pass short, one pass long).
LoopCountShort(nframe) == nframe - 2
LoopCountLong(nframe) == nframe
LoopCount(nframe) == nframe - 1

\* The index of the intrinsic blended by loop index i: intrinsic[i + 1] (and
\* the same write at the loop index itself).
BlendIndexSame(i) == i
BlendIndex(i) == i + 1

\* c2w_1 = R_phi @ R_theta @ c2w_0
FrameRotate(c2w_0, theta, phi) == RotY(phi, RotX(theta, c2w_0))

\* w2c_1 = c2w_1.inverse(), taken after the last change of c2w_1 (and the
\* same inversion taken before the radius scale).
FrameW2CBeforeScale(c2w_1) ==
    Inverse([c2w_1 EXCEPT !.ops = SubSeq(@, 1, Len(@) - 1)])
FrameW2C(c2w_1) == Inverse(c2w_1)

\* ---------------------------------------------- rotation_matrix_from_vectors
\* Vectors have integer components; v / np.linalg.norm(v) is not formed:
\* what the code reads of the normalised vectors is stated on v itself.
Dot(a, b) == a[1] * b[1] + a[2] * b[2] + a[3] * b[3]
Cross(a, b) == <<a[2] * b[3] - a[3] * b[2],
                 a[3] * b[1] - a[1] * b[3],
                 a[1] * b[2] - a[2] * b[1]>>
ZeroVec == <<0, 0, 0>>
XAxis == <<1, 0, 0>>
YAxis == <<0, 1, 0>>

\* Component j of v / |v| equals x, for x in {0, 1}.
UnitComponentIs(v, j, x) ==
    IF x = 0 THEN v[j] = 0 ELSE v[j] > 0 /\ v[j] * v[j] = Dot(v, v)

\* np.all(v1 != e) on the normalised v1: every component differs.
AllDiffer(v, e) == \A j \in 1..3 : ~UnitComponentIs(v, j, e[j])

\* np.array([1,0,0]) if np.all(v1 != np.array([1,0,0])) else np.array([0,1,0])
ArbitraryAxis(v) == IF AllDiffer(v, XAxis) THEN XAxis ELSE YAxis

\* A rotation as scipy's Rotation.from_rotvec builds it: about the direction
\* `axis` by the angle in [0, pi] whose cosine is cosn / sqrt(S); the
\* identity has no axis.
Rot(axis, cosn, S) == [axis |-> axis, cosn |-> cosn, S |-> S]
NoRot == Rot(ZeroVec, 0, 0)

rotation_matrix_from_vectors(v1, v2) ==
    LET cross_product == Cross(v1, v2)        \* times |v1||v2|
        dot_product == Dot(v1, v2)            \* times |v1||v2|
        S == Dot(v1, v1) * Dot(v2, v2)
    IN IF cross_product = ZeroVec             \* norm below 1e-10: parallel
       THEN IF dot_product > 0
            THEN Rot(ZeroVec, 1, 1)                    \* np.eye(3)
            ELSE Rot(ArbitraryAxis(v1), -1, 1)         \* pi about the axis
       ELSE Rot(cross_product, dot_product, S)         \* Rodrigues

\* M applied to v, as rat + irr / sqrt(S) with rational vectors rat, irr
\* (Rodrigues' formula: v cos + (k x v) sin + k (k.v)(1 - cos), k the unit
\* axis; sin / |axis| is 1 / sqrt(S) in the Rodrigues branch, where
\* |cross|^2 = S - dot^2, and 0 for a half turn).
ApplyRot(M, v) ==
    LET k == M.axis
        kk == Dot(k, k)
        kv == Dot(k, v)
        sk == IF M.S = M.cosn * M.cosn THEN 0 ELSE 1
        kxv == Cross(k, v)
        along(j) == IF kk = 0 THEN Q(0, 1) ELSE Q(k[j] * kv, kk)
    IN [rat |-> [j \in 1..3 |-> along(j)],
        irr |-> [j \in 1..3 |->
                   QSub(Int2Q(M.cosn * v[j] + sk * kxv[j]),
                        QMul(Int2Q(M.cosn), along(j)))],
        S |-> M.S]

\* The vector rat + irr / sqrt(S) is the integer vector w.
IsVector(r, w) ==
    \E root \in 1..(3 * MaxCoord * MaxCoord + 3) :
        /\ (root * root = r.S \/ \A j \in 1..3 : r.irr[j].n = 0)
        /\ \A j \in 1..3 :
             QAdd(r.rat[j], QMul(r.irr[j], Q(1, root))) = Int2Q(w[j])

\* --------------------------------------------------------------------- state
VARIABLES
    pc,              \* where the caller / build_cameras stands
    traj_type, nframe, focal_length, start_elevation, radius,   \* the inputs
    arche,           \* what traj_map returned: <<>> or <<archetype>>
    w2c_0, c2w_0,    \* the initial pose
    heap,            \* tensors of intrinsics: 0 is the caller's, c > 0 the
                     \* one call c allocated
    intrinsic,       \* build_cameras' local name `intrinsic`: an object of heap
    c2ws, w2cs,
    d_thetas, d_phis, d_rs, x_offsets, y_offsets, z_offsets,
    i, c2w_1, w2c_1,
    call,            \* which call of build_cameras this is
    returned,        \* per finished call, the values of what it returned
    incoming,        \* history: the per-frame intrinsics the call started from
    reads,           \* history: the indices read from d_thetas/d_phis
    v1, v2,          \* the vectors given to rotation_matrix_from_vectors
    rotation,        \* the matrix it returned
    rotated,         \* that matrix applied to v1
    rpc              \* where its caller stands

inputs == <<traj_type, nframe, focal_length, start_elevation, radius>>
deltas == <<d_thetas, d_phis, d_rs, x_offsets, y_offsets, z_offsets>>
pose0 == <<w2c_0, c2w_0>>
pathvars == <<pc, inputs, arche, pose0, heap, intrinsic, c2ws, w2cs, deltas,
              i, c2w_1, w2c_1, call, returned, incoming, reads>>
alignvars == <<v1, v2, rotation, rotated, rpc>>
vars == <<pathvars, alignvars>>

TrajNames == {"free1", "free2", "free3", "free4", "free5",
              "swing1", "swing2", "orbit", "free6", "zoom"}
FocalLengths == {Q(1,1), Q(2,1), Q(1,2)}
Elevations == {0, 5}
Radii == {1, 2}
NDims == {2, 3}

Coords == (-MaxCoord)..MaxCoord
Vectors == {v \in Coords \X Coords \X Coords : v # ZeroVec}
NoApplied == [rat |-> <<>>, irr |-> <<>>, S |-> 0]

\* The state before a run of the path builder, for the given inputs.
PathStart(at, names, frames, focals, elevations, radii, ndims) ==
    /\ pc = at
    /\ traj_type \in names
    /\ nframe \in frames
    /\ focal_length \in focals
    /\ start_elevation \in elevations
    /\ radius \in radii
    /\ \E ndim \in ndims :
         heap = [o \in 0..MaxCalls |-> IF o = 0 THEN ArgTensor(ndim, nframe) ELSE NoTensor]
    /\ arche = <<>>
    /\ w2c_0 = NoPose /\ c2w_0 = NoPose
    /\ intrinsic = -1
    /\ c2ws = <<>> /\ w2cs = <<>>
    /\ d_thetas = <<>> /\ d_phis = <<>> /\ d_rs = <<>>
    /\ x_offsets = <<>> /\ y_offsets = <<>> /\ z_offsets = <<>>
    /\ i = 0 /\ c2w_1 = NoPose /\ w2c_1 = NoPose
    /\ call = 1
    /\ returned = <<>>
    /\ incoming = <<>>
    /\ reads = {}

\* The state before a call of rotation_matrix_from_vectors on v1, v2.
AlignStart(at, vs1, vs2) ==
    /\ v1 \in vs1
    /\ v2 \in vs2
    /\ rotation = NoRot
    /\ rotated = NoApplied
    /\ rpc = at

\* The path builder runs; nothing calls rotation_matrix_from_vectors.
Init ==
    /\ PathStart("start", TrajNames, NFrames, FocalLengths, Elevations, Radii, NDims)
    /\ AlignStart("idle", {XAxis}, {XAxis})

\* The caller resolves the trajectory name.
Resolve ==
    /\ pc = "start"
    /\ LET r == traj_map(traj_type)
       IN /\ arche' = r.ret
          /\ pc' = IF r.raised THEN "NotImplementedError" ELSE "resolved"
    /\ UNCHANGED <<inputs, pose0, heap, intrinsic, c2ws, w2cs, deltas,
                   i, c2w_1, w2c_1, call, returned, incoming, reads,
                   alignvars>>

\* The caller builds the initial pose.
SetInitialCamera ==
    /\ pc = "resolved"
    /\ LET p == set_initial_camera(start_elevation, radius)
       IN w2c_0' = p.w2c_0 /\ c2w_0' = p.c2w_0
    /\ pc' = "call"
    /\ UNCHANGED <<inputs, arche, heap, intrinsic, c2ws, w2cs, deltas,
                   i, c2w_1, w2c_1, call, returned, incoming, reads,
                   alignvars>>

\* build_cameras, lines 204-210: broadcast a single matrix, start the lists.
Enter ==
    /\ pc = "call"
    /\ IF heap[0].ndim = 2
       THEN /\ heap' = [heap EXCEPT ![call] = Repeat(heap[0], nframe)]
            /\ intrinsic' = call
       ELSE /\ heap' = heap
            /\ intrinsic' = 0
    /\ incoming' = heap'[intrinsic'].data
    /\ c2ws' = <<c2w_0>>
    /\ w2cs' = <<w2c_0>>
    /\ d_thetas' = <<>> /\ d_phis' = <<>> /\ d_rs' = <<>>
    /\ x_offsets' = <<>> /\ y_offsets' = <<>> /\ z_offsets' = <<>>
    /\ reads' = {}
    /\ pc' = "deltas"
    /\ UNCHANGED <<inputs, arche, pose0, i, c2w_1, w2c_1, call, returned,
                   alignvars>>

\* build_cameras, lines 211-245: the delta lists of the family.
BuildDeltas ==
    /\ pc = "deltas"
    /\ LET a == arche[1]
           known == a.cam_traj \in {"free", "swing1", "swing2"}
           d == CASE a.cam_traj = "free" ->
                       FreeDeltas(nframe, a.d_theta, a.d_phi, a.d_r, radius,
                                  a.x_offset, a.y_offset, a.z_offset)
                  [] a.cam_traj = "swing1" -> Swing1Deltas(nframe)
                  [] a.cam_traj = "swing2" -> Swing2Deltas(nframe)
                  [] OTHER -> [d_thetas |-> <<>>, d_phis |-> <<>>, d_rs |-> <<>>,
                               x_offsets |-> <<>>, y_offsets |-> <<>>,
                               z_offsets |-> <<>>]
       IN /\ d_thetas' = d.d_thetas /\ d_phis' = d.d_phis /\ d_rs' = d.d_rs
          /\ x_offsets' = d.x_offsets /\ y_offsets' = d.y_offsets
          /\ z_offsets' = d.z_offsets
          /\ pc' = IF known THEN "loop" ELSE "NotImplementedError"
    /\ i' = 0
    /\ UNCHANGED <<inputs, arche, pose0, heap, intrinsic, c2ws, w2cs,
                   c2w_1, w2c_1, call, returned, incoming, reads,
                   alignvars>>

\* Lines 247-258: the loop takes index i and rotates the initial pose.
Rotate ==
    /\ pc = "loop"
    /\ i < LoopCount(nframe)
    /\ IF i < Len(d_thetas) /\ i < Len(d_phis)
       THEN /\ c2w_1' = FrameRotate(c2w_0, d_thetas[i + 1], d_phis[i + 1])
            /\ reads' = reads \cup {i}
            /\ pc' = "offset"
       ELSE /\ pc' = "IndexError"
            /\ UNCHANGED <<c2w_1, reads>>
    /\ UNCHANGED <<inputs, arche, pose0, heap, intrinsic, c2ws, w2cs, deltas,
                   i, w2c_1, call, returned, incoming,
                   alignvars>>

\* Lines 259-260: the offset, where the three lists reach index i.
Offset ==
    /\ pc = "offset"
    /\ c2w_1' = IF i < Len(x_offsets) /\ i < Len(y_offsets) /\ i < Len(z_offsets)
                THEN AddTranslation(c2w_1, <<x_offsets[i + 1], y_offsets[i + 1],
                                             z_offsets[i + 1]>>)
                ELSE c2w_1
    /\ pc' = "scale"
    /\ UNCHANGED <<inputs, arche, pose0, heap, intrinsic, c2ws, w2cs, deltas,
                   i, w2c_1, call, returned, incoming, reads,
                   alignvars>>

\* Line 261: the radius scale.
Scale ==
    /\ pc = "scale"
    /\ IF i < Len(d_rs)
       THEN c2w_1' = ScaleTranslation(c2w_1, d_rs[i + 1]) /\ pc' = "invert"
       ELSE c2w_1' = c2w_1 /\ pc' = "IndexError"
    /\ UNCHANGED <<inputs, arche, pose0, heap, intrinsic, c2ws, w2cs, deltas,
                   i, w2c_1, call, returned, incoming, reads,
                   alignvars>>

\* Line 262.
Invert ==
    /\ pc = "invert"
    /\ w2c_1' = FrameW2C(c2w_1)
    /\ pc' = "append"
    /\ UNCHANGED <<inputs, arche, pose0, heap, intrinsic, c2ws, w2cs, deltas,
                   i, c2w_1, call, returned, incoming, reads,
                   alignvars>>

\* Lines 263-264.
AppendPose ==
    /\ pc = "append"
    /\ c2ws' = Append(c2ws, c2w_1)
    /\ w2cs' = Append(w2cs, w2c_1)
    /\ pc' = "blend"
    /\ UNCHANGED <<inputs, arche, pose0, heap, intrinsic, deltas,
                   i, c2w_1, w2c_1, call, returned, incoming, reads,
                   alignvars>>

\* Lines 266-267: the focal-length blend, written into the tensor that
\* `intrinsic` names; then the next loop index.
Blend ==
    /\ pc = "blend"
    /\ LET j == BlendIndex(i)
       IN IF j < Len(heap[intrinsic].data)
          THEN /\ heap' = [heap EXCEPT ![intrinsic].data[j + 1] =
                               BlendBlock(@, focal_length, i + 1, nframe)]
               /\ i' = i + 1
               /\ pc' = "loop"
          ELSE /\ pc' = "IndexError"
               /\ UNCHANGED <<heap, i>>
    /\ UNCHANGED <<inputs, arche, pose0, intrinsic, c2ws, w2cs, deltas,
                   c2w_1, w2c_1, call, returned, incoming, reads,
                   alignvars>>

\* Lines 269-272: stack the lists and return them with `intrinsic`.
Return ==
    /\ pc = "loop"
    /\ i >= LoopCount(nframe)
    /\ returned' = Append(returned, [w2cs |-> w2cs, c2ws |-> c2ws,
                                     intrinsic |-> heap[intrinsic].data])
    /\ pc' = "done"
    /\ UNCHANGED <<inputs, arche, pose0, heap, intrinsic, c2ws, w2cs, deltas,
                   i, c2w_1, w2c_1, call, incoming, reads,
                   alignvars>>

\* The caller calls build_cameras again with the same arguments.
CallAgain ==
    /\ pc = "done"
    /\ call < MaxCalls
    /\ call' = call + 1
    /\ pc' = "call"
    /\ intrinsic' = -1
    /\ c2ws' = <<>> /\ w2cs' = <<>>
    /\ i' = 0 /\ c2w_1' = NoPose /\ w2c_1' = NoPose
    /\ UNCHANGED <<inputs, arche, pose0, heap, deltas, returned, incoming, reads,
                   alignvars>>

\* rotation_matrix_from_vectors(v1, v2).
Align ==
    /\ rpc = "call"
    /\ rotation' = rotation_matrix_from_vectors(v1, v2)
    /\ rpc' = "returned"
    /\ UNCHANGED <<v1, v2, rotated, pathvars>>

\* The caller applies the matrix to v1.
Apply ==
    /\ rpc = "returned"
    /\ rotated' = ApplyRot(rotation, v1)
    /\ rpc' = "done"
    /\ UNCHANGED <<v1, v2, rotation, pathvars>>

Next ==
    \/ Resolve
    \/ SetInitialCamera
    \/ Enter
    \/ BuildDeltas
    \/ Rotate
    \/ Offset
    \/ Scale
    \/ Invert
    \/ AppendPose
    \/ Blend
    \/ Return
    \/ CallAgain

Spec == Init /\ [][Next]_vars

\* rotation_matrix_from_vectors alone, on every pair of vectors.
InitAlign ==
    /\ PathStart("idle", {"free1"}, {2}, {Q(1,1)}, {0}, {1}, {2})
    /\ AlignStart("call", Vectors, Vectors)

NextAlign ==
    \/ Align
    \/ Apply

SpecAlign == InitAlign /\ [][NextAlign]_vars

\* ------------------------------------------------------------------ claims
Registered == {"free1", "free2", "free3", "free4", "free5",
               "swing1", "swing2", "orbit"}
Families == {"free", "swing1", "swing2"}
\* What the call that just finished returned.
Result == returned[Len(returned)]
Family == arche[1].cam_traj
\* build_cameras is building frame i + 1 (loop index i).
BuildingFrame ==
    \/ pc \in {"offset", "scale", "invert", "append", "blend"}
    \/ pc = "loop" /\ i < nframe - 1

\* C1: for every registered name, every nframe >= 2 and both forms of the
\* intrinsics, build_cameras returns without error and w2cs, c2ws and
\* intrinsics each have exactly nframe entries.
C1_Lengths ==
    /\ traj_type \in Registered => pc \notin {"NotImplementedError", "IndexError"}
    /\ pc = "done" =>
         /\ Len(Result.w2cs) = nframe
         /\ Len(Result.c2ws) = nframe
         /\ Len(Result.intrinsic) = nframe

C1_Witness ==
    /\ pc = "done" /\ call = 1
    /\ traj_type = "swing2" /\ nframe = 3 /\ heap[0].ndim = 3

\* C2: every w2c is the inverse of the c2w it is paired with, taken of the
\* c2w as it finally stands: the pair of set_initial_camera, every pair of
\* the lists while they grow, and every pair returned.
C2_InversePairs ==
    /\ pc \notin {"start", "resolved", "NotImplementedError"} =>
         w2c_0 = Inverse(c2w_0)
    /\ Len(w2cs) = Len(c2ws)
    /\ \A j \in 1..Len(c2ws) : w2cs[j] = Inverse(c2ws[j])
    /\ \A c \in 1..Len(returned) :
         /\ Len(returned[c].w2cs) = nframe /\ Len(returned[c].c2ws) = nframe
         /\ \A j \in 1..nframe :
              returned[c].w2cs[j] = Inverse(returned[c].c2ws[j])

C2_Witness ==
    /\ pc = "done" /\ traj_type = "free2" /\ nframe = 4
    /\ Len(Result.c2ws[4].ops) = 5

\* C3: index 0 of what build_cameras returns is the caller's initial pose
\* and the caller's intrinsic of frame 0, whatever the focal length.
C3_FrameZero ==
    pc = "done" =>
        /\ Result.w2cs[1] = set_initial_camera(start_elevation, radius).w2c_0
        /\ Result.c2ws[1] = set_initial_camera(start_elevation, radius).c2w_0
        /\ Result.w2cs[1] = w2c_0 /\ Result.c2ws[1] = c2w_0
        /\ Result.intrinsic[1] = ArgMatrix(0)
        /\ Result.intrinsic[1] = incoming[1]

C3_Witness ==
    /\ pc = "done" /\ focal_length = Q(2,1) /\ heap[0].ndim = 3
    /\ Result.intrinsic[2] # ArgMatrix(1)

\* C5: an unregistered name raises and yields no archetype value at all;
\* every registered name resolves to a family of free, swing1, swing2.
C5_Resolve ==
    pc # "start" =>
        IF traj_type \in Registered
        THEN /\ pc # "NotImplementedError"
             /\ Len(arche) = 1
             /\ arche[1].cam_traj \in Families
        ELSE pc = "NotImplementedError" /\ arche = <<>>

C5_Witness ==
    /\ pc = "NotImplementedError" /\ traj_type = "free6" /\ arche = <<>>

\* C6: in the free family the ramp coefficient of the last frame is exactly
\* 1: the last frame is built with theta = d_theta, phi = d_phi and radius
\* scale d_r; for orbit with nframe = 13 that is phi = -360 and scale 1.
C6_LastFrame ==
    (pc = "done" /\ Family = "free") =>
        LET a == arche[1]
            last == Result.c2ws[nframe]
        IN /\ d_thetas[nframe - 1] = a.d_theta
           /\ d_phis[nframe - 1] = a.d_phi
           /\ d_rs[nframe - 1] = a.d_r
           /\ last = ScaleTranslation(
                        AddTranslation(
                            RotY(a.d_phi, RotX(a.d_theta, c2w_0)),
                            <<x_offsets[nframe - 1], y_offsets[nframe - 1],
                              z_offsets[nframe - 1]>>),
                        a.d_r)
           /\ (traj_type = "orbit" /\ nframe = 13) =>
                /\ last.ops[3] = Op("Ry", Q(-360, 1), NoVec)
                /\ last.ops[Len(last.ops)] = Op("mul", Q(1, 1), NoVec)

C6_Witness ==
    /\ pc = "done" /\ traj_type = "orbit" /\ nframe = 13
    /\ d_phis[12] = Q(-360, 1) /\ d_phis[1] = Q(-30, 1)

\* C4: for every nonzero v, rotation_matrix_from_vectors(v, -v) applied to v
\* gives -v.
C4_HalfTurn ==
    (rpc = "done" /\ v2 = <<-v1[1], -v1[2], -v1[3]>>) =>
        IsVector(rotated, <<-v1[1], -v1[2], -v1[3]>>)

\* C7: after a call returns, the caller's intrinsics hold the values they
\* held before it, and calls given the same intrinsics return the same path.
C7_PureOverInputs ==
    pc = "done" =>
        /\ heap[0] = ArgTensor(heap[0].ndim, nframe)
        /\ \A a, b \in 1..Len(returned) : returned[a] = returned[b]

\* The delta lists the family uses to build a frame.
UsedLists ==
    IF Family = "free"
    THEN {d_thetas, d_phis, d_rs, x_offsets, y_offsets, z_offsets}
    ELSE {d_thetas, d_phis, d_rs}

\* C8 as stated: while frame f = i + 1 is built, every delta list in use
\* has at least f + 1 entries.
C8_AsStated ==
    BuildingFrame => \A l \in UsedLists : Len(l) >= (i + 1) + 1

\* C8, amended: while frame f = i + 1 is built, every delta list in use has
\* at least f entries (the frame reads entry f - 1, counted from 0), and no
\* read goes past the end of a list.
C8_Amended ==
    /\ pc # "IndexError"
    /\ BuildingFrame => \A l \in UsedLists : Len(l) >= i + 1

C8_Witness ==
    /\ pc = "blend" /\ Family = "free" /\ i = nframe - 2 /\ nframe = 4
    /\ Len(d_thetas) = i + 1 /\ Len(x_offsets) = i + 1
    /\ reads = 0..i

\* The intrinsic K of frame f with its top-left 2x2 block multiplied by
\* focal_length * f / nframe + (nframe - f) / nframe.
BlendedOnce(K, f) ==
    LET factor == QAdd(QMul(focal_length, Q(f, nframe)), Q(nframe - f, nframe))
    IN [r \in 1..3 |-> [c \in 1..3 |->
          IF r <= 2 /\ c <= 2 THEN QMul(K[r][c], factor) ELSE K[r][c]]]

\* C9: each frame f in 1..nframe-1 gets the 2x2 block of its own incoming
\* intrinsic multiplied by the blend factor, once, when the loop passes it;
\* row 2 and column 2 stay as they came in.
C9_Blend ==
    pc \in {"loop", "offset", "scale", "invert", "append", "blend", "done"} =>
        \A f \in 1..(nframe - 1) :
            LET now == heap[intrinsic].data[f + 1]
                was == incoming[f + 1]
            IN /\ now = IF f <= i THEN BlendedOnce(was, f) ELSE was
               /\ \A k \in 1..3 : now[3][k] = was[3][k] /\ now[k][3] = was[k][3]

C9_Witness ==
    /\ pc = "done" /\ call = 2 /\ heap[0].ndim = 3 /\ nframe = 3
    /\ focal_length = Q(1, 2)
    /\ Result.intrinsic[3][1][1] # incoming[3][1][1]

\* C10: in the swing families frame f is built from sample f - 1 of the
\* resampled curves; frame 1 uses the first samples, overwritten to the
\* first keyframes 0 and 0, so its rotation is the initial pose's; the last
\* sample, overwritten to the last keyframe, is read by no frame.
C10_SwingSamples ==
    (pc = "done" /\ Family \in {"swing1", "swing2"}) =>
        /\ Len(d_phis) = nframe /\ Len(d_thetas) = nframe
        /\ \A f \in 1..(nframe - 1) :
             Result.c2ws[f + 1] =
                 ScaleTranslation(RotY(d_phis[f], RotX(d_thetas[f], c2w_0)), d_rs[f])
        /\ d_phis[1] = Q(0, 1) /\ d_thetas[1] = Q(0, 1)
        /\ RotationOf(Result.c2ws[2]) = RotationOf(c2w_0)
        /\ d_phis[nframe] = Q(0, 1) /\ d_thetas[nframe] = Q(0, 1)
        /\ reads = 0..(nframe - 2)
        /\ nframe >= 3 =>
             /\ d_phis[nframe - 1].s = <<[curve |-> <<Family, "phis__">>,
                                          at |-> nframe - 2, of |-> nframe]>>
             /\ Result.c2ws[nframe].ops[3] = Op("Ry", d_phis[nframe - 1], NoVec)

C10_Witness ==
    /\ pc = "done" /\ Family = "swing1" /\ nframe = 4
    /\ Result.c2ws[2].ops[2] = Op("Rx", Q(0, 1), NoVec)
    /\ Result.c2ws[4].ops[4] = Op("mul", Q(17, 15), NoVec)

====
